---- MODULE Spec2Model ----
(***************************************************************************)
(* A model of the two course notebooks of the repository:                  *)
(*   src/Courses/Pandas/Pandas.py            (Titanic, air quality, bikes) *)
(*   src/Courses/TimeMemory/TempsMemoire.py  (sparse matrices, graphs, pdb)*)
(* Both files are "percent" notebooks: cells start at a "# %%" line and    *)
(* are evaluated by IPython, either all in a row (the first exception      *)
(* stops the run) or one cell at a time (an exception ends its cell).      *)
(* The state is the part of the notebooks' namespace the properties below  *)
(* talk about, together with what the statements change outside of it:     *)
(* the pandas display options, the data files on disk and IPython's pdb    *)
(* switch.  Plots, imports and pure display expressions are left out: they *)
(* assign none of the modelled variables.  Of df_bikes the model keeps the *)
(* index, the column labels and the values of date, heure and Time.        *)
(***************************************************************************)
EXTENDS Integers, Sequences, FiniteSets, TLC

VARIABLES script, mode, pc, status, err,
          options, disk, pdb_on,
          csv_titanic, csv_polution,
          df_titanic_raw, age, polution_df, time_improved, df_bikes,
          G, A, D,
          frame, bx, bi, answer, ret, printed

ctlvars == <<script, mode, pc, status, err>>
extvars == <<options, disk, pdb_on>>
csvvars == <<csv_titanic, csv_polution>>
pdvars == <<df_titanic_raw, age, polution_df, time_improved, df_bikes>>
gvars == <<G, A, D>>
fnvars == <<frame, bx, bi, answer, ret>>
progvars == <<pdvars, gvars>>
vars == <<ctlvars, extvars, csvvars, pdvars, gvars, fnvars, printed>>

(***************************************************************************)
(* Bounds of the model.                                                    *)
(***************************************************************************)
MaxRows == 2        \* rows of the Titanic table read from titanic.csv
MaxPolRows == 1     \* rows of the air-quality table
MaxHourIn == 25     \* the first hour of an air-quality table is "0" .. "25"
MaxX == 12          \* blobl_func is applied to -MaxX .. MaxX

(***************************************************************************)
(* Cell values.  Every value carries its kind so that a table can hold     *)
(* integers, strings and NaN side by side.  Character strings that the     *)
(* code parses (dates, hours) are sequences of one-character strings.      *)
(***************************************************************************)
IntV(n) == [t |-> "int", i |-> n, s |-> ""]
StrV(x) == [t |-> "str", i |-> 0, s |-> x]
NaN == [t |-> "nan", i |-> 0, s |-> ""]

\* a name the notebook has not assigned yet (using it raises NameError)
Undef == [cols |-> <<"?">>, idxname |-> "?", index |-> <<>>, data |-> <<>>]
Defined(df) == df # Undef

IndexOf(x, s) == IF \E k \in 1..Len(s) : s[k] = x
                 THEN CHOOSE k \in 1..Len(s) : s[k] = x /\ \A j \in 1..(k-1) : s[j] # x
                 ELSE 0
Has(x, s) == \E k \in 1..Len(s) : s[k] = x
Without(s, k) == [j \in 1..(Len(s)-1) |-> IF j < k THEN s[j] ELSE s[j+1]]

(***************************************************************************)
(* pandas.DataFrame, as far as the notebook uses it on df_titanic_raw:     *)
(* cols are the column labels, idxname the name of the index ("" for the   *)
(* unnamed default index), index the row labels and data the rows, each    *)
(* row aligned with cols.                                                  *)
(***************************************************************************)
RangeIndex(n) == [k \in 1..n |-> IntV(k - 1)]

\* pd.read_csv: the rows of the file under the default index 0..n-1
ReadCsv(header, rows) ==
    [cols |-> header, idxname |-> "", index |-> RangeIndex(Len(rows)), data |-> rows]

Column(df, c) == [k \in 1..Len(df.data) |-> df.data[k][IndexOf(c, df.cols)]]

\* df.set_index(c): column c becomes the index and leaves the columns
SetIndex(df, c) ==
    LET k == IndexOf(c, df.cols) IN
    [cols |-> Without(df.cols, k), idxname |-> c, index |-> Column(df, c),
     data |-> [r \in 1..Len(df.data) |-> Without(df.data[r], k)]]

\* df.reset_index() that forgets the old index (drop=True)
ResetIndexDrop(df) ==
    [cols |-> df.cols, idxname |-> "", index |-> RangeIndex(Len(df.data)),
     data |-> df.data]

\* df.reset_index(): the index becomes the first column, named after the
\* index ("index" when it has no name), under a fresh default index
ResetIndex(df) ==
    [cols |-> <<IF df.idxname = "" THEN "index" ELSE df.idxname>> \o df.cols,
     idxname |-> "", index |-> RangeIndex(Len(df.data)),
     data |-> [r \in 1..Len(df.data) |-> <<df.index[r]>> \o df.data[r]]]

\* df.loc[label, c] and df.loc[label] raise KeyError unless label is a row label
LocFound(df, label) == Has(label, df.index)
LocGet(df, label, c) == Column(df, c)[IndexOf(label, df.index)]

\* df.loc[label, c] = v: every row labelled label gets v in column c; when no
\* row has that label a new row is appended (setting with enlargement), NaN
\* in the other columns
LocSet(df, label, c, v) ==
    IF LocFound(df, label)
    THEN [df EXCEPT !.data = [r \in 1..Len(df.data) |->
            IF df.index[r] = label
            THEN [df.data[r] EXCEPT ![IndexOf(c, df.cols)] = v]
            ELSE df.data[r]]]
    ELSE [df EXCEPT !.index = Append(df.index, label),
                    !.data = Append(df.data,
                        [k \in 1..Len(df.cols) |-> IF df.cols[k] = c THEN v ELSE NaN])]

(***************************************************************************)
(* Text and numbers: int(str), str(int), the int8 column type and the      *)
(* '%d/%m/%Y %H:%M' parse of pd.to_datetime.                               *)
(***************************************************************************)
Digits == <<"0", "1", "2", "3", "4", "5", "6", "7", "8", "9">>
IsDigit(c) == Has(c, Digits)
DigitVal(c) == IndexOf(c, Digits) - 1
AllDigits(s) == Len(s) > 0 /\ \A k \in 1..Len(s) : IsDigit(s[k])

RECURSIVE NatOfDigits(_)
NatOfDigits(s) == IF Len(s) = 0 THEN 0
                  ELSE 10 * NatOfDigits(SubSeq(s, 1, Len(s) - 1)) + DigitVal(s[Len(s)])

RECURSIVE NatToStr(_)
NatToStr(n) == IF n < 10 THEN <<Digits[n + 1]>>
               ELSE NatToStr(n \div 10) \o <<Digits[(n % 10) + 1]>>

\* str(n) of an integer
IntToStr(n) == IF n < 0 THEN <<"-">> \o NatToStr(-n) ELSE NatToStr(n)

\* int(s) of a text: an optional sign and decimal digits, ValueError otherwise
IntParses(s) == IF Len(s) > 0 /\ s[1] \in {"-", "+"} THEN AllDigits(Tail(s)) ELSE AllDigits(s)
IntOfStr(s) == IF s[1] = "-" THEN -NatOfDigits(Tail(s))
               ELSE IF s[1] = "+" THEN NatOfDigits(Tail(s)) ELSE NatOfDigits(s)

\* numpy int8: 8 bits, two's complement
InInt8(n) == -128 <= n /\ n <= 127
WrapInt8(n) == ((n + 128) % 256) - 128

\* an hour cell: the text read from the file, or an int8
HourStr(c) == [t |-> "str", i |-> 0, c |-> c]
HourInt8(n) == [t |-> "int8", i |-> n, c |-> <<>>]

\* Series.astype(np.int8) of one cell
CellParsesInt8(h) == IF h.t = "str" THEN IntParses(h.c) /\ InInt8(IntOfStr(h.c)) ELSE TRUE
CellAsInt8(h) == IF h.t = "str" THEN HourInt8(IntOfStr(h.c)) ELSE h

\* Series - 1 of one cell without the subtraction
CellKeep(h) == h

\* Series - 1 of one int8 cell (int8 arithmetic wraps)
CellMinusOne(h) == HourInt8(WrapInt8(h.i - 1))

\* Series.astype('str') of one cell
CellAsStr(h) == IF h.t = "int8" THEN HourStr(IntToStr(h.i)) ELSE h

\* the first position of character c in s, 0 when absent
Find(c, s) == IndexOf(c, s)
Before(s, k) == SubSeq(s, 1, k - 1)
After(s, k) == SubSeq(s, k + 1, Len(s))

\* one numeric directive of strptime: 1 or 2 digits (n digits for %Y) in lo..hi
FieldOK(tok, minlen, maxlen, lo, hi) ==
    /\ Len(tok) >= minlen /\ Len(tok) <= maxlen
    /\ AllDigits(tok)
    /\ NatOfDigits(tok) >= lo /\ NatOfDigits(tok) <= hi

IsLeap(y) == (y % 4 = 0 /\ y % 100 # 0) \/ y % 400 = 0
DaysInMonth(y, m) == IF m = 2 THEN (IF IsLeap(y) THEN 29 ELSE 28)
                     ELSE IF m \in {4, 6, 9, 11} THEN 30 ELSE 31

\* the five fields of a text of the shape a<sep>b<sep>c H:M (empty fields
\* when a separator is missing)
Split5(s, sep) ==
    LET p1 == Find(sep, s)
        r1 == After(s, p1)
        p2 == Find(sep, r1)
        r2 == After(r1, p2)
        p3 == Find(" ", r2)
        r3 == After(r2, p3)
        p4 == Find(":", r3)
    IN IF p1 = 0 \/ p2 = 0 \/ p3 = 0 \/ p4 = 0 THEN <<<<>>, <<>>, <<>>, <<>>, <<>>>>
       ELSE <<Before(s, p1), Before(r1, p2), Before(r2, p3), Before(r3, p4), After(r3, p4)>>

\* the fields of a text of the shape d/m/Y H:M
Fields(s) == Split5(s, "/")

\* does the text match format '%d/%m/%Y %H:%M' and name a real calendar day
DateTimeParses(s) ==
    LET f == Fields(s) IN
    /\ FieldOK(f[1], 1, 2, 1, 31)
    /\ FieldOK(f[2], 1, 2, 1, 12)
    /\ FieldOK(f[3], 4, 4, 0, 9999)
    /\ FieldOK(f[4], 1, 2, 0, 23)
    /\ FieldOK(f[5], 1, 2, 0, 59)
    /\ NatOfDigits(f[3]) >= 1
    /\ NatOfDigits(f[1]) <= DaysInMonth(NatOfDigits(f[3]), NatOfDigits(f[2]))

\* the timestamp pd.to_datetime(s, format='%d/%m/%Y %H:%M') returns
ToDatetime(s) ==
    LET f == Fields(s) IN
    [Y |-> NatOfDigits(f[3]), m |-> NatOfDigits(f[2]), d |-> NatOfDigits(f[1]),
     H |-> NatOfDigits(f[4]), M |-> NatOfDigits(f[5])]

\* does the text match format '%Y-%m-%d %H:%M' and name a real calendar day
DateTimeParsesYmd(s) ==
    LET f == Split5(s, "-") IN
    /\ FieldOK(f[1], 4, 4, 0, 9999)
    /\ FieldOK(f[2], 1, 2, 1, 12)
    /\ FieldOK(f[3], 1, 2, 1, 31)
    /\ FieldOK(f[4], 1, 2, 0, 23)
    /\ FieldOK(f[5], 1, 2, 0, 59)
    /\ NatOfDigits(f[1]) >= 1
    /\ NatOfDigits(f[3]) <= DaysInMonth(NatOfDigits(f[1]), NatOfDigits(f[2]))

\* the timestamp pd.to_datetime(s, format='%Y-%m-%d %H:%M') returns
ToDatetimeYmd(s) ==
    LET f == Split5(s, "-") IN
    [Y |-> NatOfDigits(f[1]), m |-> NatOfDigits(f[2]), d |-> NatOfDigits(f[3]),
     H |-> NatOfDigits(f[4]), M |-> NatOfDigits(f[5])]

\* polution_df['date'] + ' ' + polution_df['heure'] + ':00' of one row
StampText(date, h) == date \o <<" ">> \o h.c \o <<":", "0", "0">>

\* the calendar day a dd/mm/yyyy text of the file names
DayOf(date) ==
    [Y |-> NatOfDigits(SubSeq(date, 7, 10)), m |-> NatOfDigits(SubSeq(date, 4, 5)),
     d |-> NatOfDigits(SubSeq(date, 1, 2))]

(***************************************************************************)
(* The statements of Pandas.py that assign the modelled variables, read or *)
(* write a file or set a pandas option, in file order.  line is the line   *)
(* of the statement, cell the line of the "# %%" that opens its cell.      *)
(***************************************************************************)
Bonnell == "Bonnell, Miss. Elizabeth"
Behr == "Behr, Mr. Karl Howell"
TitanicFile == "titanic.csv"
BabiesFile == "babies23.data"
PolutionFile == "20080421_20160927-PA13_auto.csv"
BikesFile == "bicycle_db.csv"
PopFile == "dpt_population.csv"
AreaFile == "dpt_area.csv"
ForceFile == "force.json"
Files == {TitanicFile, BabiesFile, PolutionFile, BikesFile, PopFile, AreaFile, ForceFile}

St(line, cell, op, a, b, n) ==
    [line |-> line, cell |-> cell, op |-> op, a |-> a, b |-> b, n |-> n]

PandasProg == <<
    St(23, 16, "set_option", "max_rows", "", 8),
    St(32, 28, "download", TitanicFile, "", 0),
    St(36, 34, "read_titanic", TitanicFile, "", 0),
    St(296, 294, "set_option", "max_rows", "", 12),
    St(344, 342, "set_index", "Name", "", 0),
    St(349, 348, "get_column", "Age", "", 0),
    St(350, 348, "series_get", Behr, "", 0),
    St(358, 356, "filter_age", "", "", 2),
    St(361, 356, "reset_index", "", "", 0),
    St(373, 371, "set_option", "max_rows", "", 70),
    St(380, 378, "set_option", "max_rows", "", 8),
    St(399, 395, "groupby_mean", "Sex", "", 0),
    St(420, 415, "read_babies", BabiesFile, "", 0),
    St(456, 450, "loc_get", Bonnell, "Fare", 0),
    St(461, 459, "loc_get", Bonnell, "", 0),
    St(466, 464, "loc_get", Bonnell, "Survived", 0),
    St(467, 464, "loc_set", Bonnell, "Survived", 0),
    St(472, 470, "loc_get", Bonnell, "", 0),
    St(478, 475, "loc_set", Bonnell, "Survived", 1),
    St(510, 506, "download", PolutionFile, "", 0),
    St(526, 524, "read_polution", PolutionFile, "", 0),
    St(533, 532, "set_option", "max_rows", "", 30),
    St(562, 560, "hour_int8", "heure", "", 0),
    St(567, 565, "hour_minus", "heure", "", 1),
    St(573, 571, "hour_str", "heure", "", 0),
    St(584, 580, "to_datetime", "date", "heure", 0),
    St(600, 597, "assign_datetime", "DateTime", "", 0),
    St(603, 597, "del_column", "heure", "", 0),
    St(604, 597, "del_column", "date", "", 0),
    St(787, 783, "download", BikesFile, "", 1),
    St(793, 790, "read_bikes", BikesFile, "", 0),
    St(804, 802, "set_option", "max_columns", "", 40),
    St(832, 830, "set_option", "max_rows", "", 20),
    St(839, 836, "replace_empty", "heure", "", 0),
    St(845, 843, "dropna", "heure", "", 0),
    St(863, 859, "bikes_to_datetime", "date", "heure", 0),
    St(873, 871, "bikes_assign_time", "Time", "", 0),
    St(874, 871, "bikes_set_index", "Time", "", 0),
    St(876, 871, "bikes_del_column", "heure", "", 0),
    St(877, 871, "bikes_del_column", "date", "", 0),
    St(962, 957, "bikes_index_column", "weekday", "", 0),
    St(994, 992, "bikes_index_column", "month", "", 0),
    St(995, 992, "bikes_apply_column", "month", "", 0),
    St(1034, 1023, "download", PopFile, "", 0),
    St(1040, 1036, "download", AreaFile, "", 0) >>

(***************************************************************************)
(* The statements of TempsMemoire.py on the graph G, the file force.json,  *)
(* the debugger and blobl_func.                                            *)
(***************************************************************************)
TempsMemoireProg == <<
    St(184, 182, "new_graph", "", "", 0),
    St(185, 182, "add_edge", "A", "B", 4),
    St(186, 182, "add_edge", "B", "D", 2),
    St(187, 182, "add_edge", "A", "C", 3),
    St(188, 182, "add_edge", "C", "D", 4),
    St(189, 182, "add_edge", "D", "A", 2),
    St(198, 196, "adjacency", "", "", 0),
    St(228, 226, "incidence", "", "", 0),
    St(256, 247, "open_json", ForceFile, "", 0),
    St(333, 331, "graph_from_place", "", "", 0),
    St(391, 389, "incidence", "", "", 0),
    St(474, 466, "illustrate_pdb", "", "", 12),
    St(481, 479, "pdb_magic", "", "", 0),
    St(497, 495, "call_blobl", "", "", 4) >>

Prog == IF script = "Pandas" THEN PandasProg ELSE TempsMemoireProg
Cur == Prog[pc]
AtStmt(op) == status = "running" /\ frame = "top" /\ pc <= Len(Prog) /\ Cur.op = op
Position(line) == CHOOSE k \in 1..Len(Prog) : Prog[k].line = line

\* the first statement of the cell after the cell of statement k
NextCell(k) ==
    IF \E j \in (k+1)..Len(Prog) : Prog[j].cell # Prog[k].cell
    THEN CHOOSE j \in (k+1)..Len(Prog) :
            Prog[j].cell # Prog[k].cell /\ \A i \in (k+1)..(j-1) : Prog[i].cell = Prog[k].cell
    ELSE Len(Prog) + 1

\* the statement ends normally: the next statement is up
Advance ==
    /\ pc' = pc + 1
    /\ status' = IF pc + 1 > Len(Prog) THEN "done" ELSE "running"
    /\ UNCHANGED <<script, mode, err>>

\* an exception that a handler swallows: the run goes on with the next statement
RaiseCaught(e) ==
    /\ err' = e
    /\ pc' = pc + 1
    /\ status' = IF pc + 1 > Len(Prog) THEN "done" ELSE "running"
    /\ UNCHANGED <<script, mode>>

\* the statement raises e.  No statement of the notebooks sits in a try
\* block, so e reaches IPython: it ends the run (all cells run in a row) or
\* the cell (cells run one by one, the next cell is up)
Raise(e) ==
    /\ err' = e
    /\ pc' = IF mode = "runall" THEN pc ELSE NextCell(pc)
    /\ status' = IF mode = "runall" THEN "failed"
                 ELSE IF NextCell(pc) > Len(Prog) THEN "done" ELSE "running"
    /\ UNCHANGED <<script, mode>>

(***************************************************************************)
(* What the files hold.  The Titanic table is read with the columns        *)
(* Survived, Name, Age, Fare (Fare in hundredths of a pound); the          *)
(* air-quality table with the columns date and heure.                      *)
(***************************************************************************)
TitanicHeader == <<"Survived", "Name", "Age", "Fare">>
PassengerRows == {
    <<IntV(1), StrV(Bonnell), IntV(58), IntV(2655)>>,
    <<IntV(1), StrV(Behr), IntV(26), IntV(3000)>>,
    <<IntV(0), StrV("Braund, Mr. Owen Harris"), IntV(22), IntV(725)>>,
    <<IntV(0), StrV("Moran, Mr. James"), NaN, IntV(846)>> }
TitanicTables == UNION {[1..n -> PassengerRows] : n \in 0..MaxRows}

DateInputs == { <<"2", "1", "/", "0", "4", "/", "2", "0", "0", "8">>,
                <<"2", "9", "/", "0", "2", "/", "2", "0", "1", "6">> }
\* a table is a stretch of one day of the file, one row per hour: n rows
\* with the hours h, h+1, ... of the same date
PolutionStretch(d, h, n) == [k \in 1..n |-> [date |-> d, heure |-> NatToStr(h + k - 1)]]
PolutionTables ==
    {PolutionStretch(d, h, n) : d \in DateInputs, h \in 0..MaxHourIn, n \in 1..MaxPolRows}

\* bicycle_db.csv: the date and the hour of an accident, the hour missing
\* (empty) in some rows
BikeDate == <<"2", "0", "0", "5", "-", "0", "1", "-", "1", "3">>
BikeRow(h) == [date |-> BikeDate, heure |-> h]
BikesTables == { <<BikeRow(<<"9">>), BikeRow(<<"1", "7">>)>>,
                 <<BikeRow(<<>>), BikeRow(<<"1", "7">>)>> }

NoTable == <<>>
UndefBikes == [def |-> FALSE, cols |-> <<>>, idxname |-> "", index |-> <<>>,
               date |-> <<>>, heure |-> <<>>, Time |-> <<>>]
NaNCell == [t |-> "nan", i |-> 0, c |-> <<>>]
NaT == [Y |-> 0, m |-> 0, d |-> 0, H |-> 0, M |-> 0]
UndefPol == [def |-> FALSE, cols |-> <<>>, date |-> <<>>, heure |-> <<>>, DateTime |-> <<>>]
UndefSeries == [def |-> FALSE, index |-> <<>>, values |-> <<>>]

(***************************************************************************)
(* Pandas.py, one action per kind of statement.                            *)
(***************************************************************************)
\* pd.options.display.<a> = n  (lines 23, 296, 373, 380, 533, 804, 832)
SetOption ==
    /\ AtStmt("set_option")
    /\ options' = [options EXCEPT ![Cur.a] = Cur.n]
    /\ Advance
    /\ UNCHANGED <<disk, pdb_on, csvvars, pdvars, gvars, fnvars, printed>>

\* download(url, path, replace) that fetches whatever is on disk
FetchAlways(f, replace) == TRUE

\* download(url, path, replace) fetches unless replace is False and path exists
Fetches(f, replace) == replace \/ disk[f] = 0

\* download(url, path_target, replace=...)  (lines 32, 510, 787, 1034, 1040):
\* the fetch writes the file or fails (no network, dead URL)
Download ==
    /\ AtStmt("download")
    /\ IF Fetches(Cur.a, Cur.n = 1)
       THEN \/ disk' = [disk EXCEPT ![Cur.a] = 2] /\ Advance
            \/ disk' = disk /\ Raise("URLError")
       ELSE disk' = disk /\ Advance
    /\ UNCHANGED <<options, pdb_on, csvvars, pdvars, gvars, fnvars, printed>>

\* df_titanic_raw = pd.read_csv("titanic.csv")  (line 36)
ReadTitanic ==
    /\ AtStmt("read_titanic")
    /\ IF disk[Cur.a] # 0
       THEN \E rows \in TitanicTables :
               /\ csv_titanic' = rows
               /\ df_titanic_raw' = ReadCsv(TitanicHeader, rows)
               /\ Advance
       ELSE UNCHANGED <<csv_titanic, df_titanic_raw>> /\ Raise("FileNotFoundError")
    /\ UNCHANGED <<extvars, csv_polution, age, polution_df, time_improved, df_bikes, gvars,
                   fnvars, printed>>

\* df_titanic_raw = df_titanic_raw.set_index('Name')  (line 344)
SetIndexStmt ==
    /\ AtStmt("set_index")
    /\ IF ~Defined(df_titanic_raw) THEN UNCHANGED df_titanic_raw /\ Raise("NameError")
       ELSE IF ~Has(Cur.a, df_titanic_raw.cols)
       THEN UNCHANGED df_titanic_raw /\ Raise("KeyError")
       ELSE df_titanic_raw' = SetIndex(df_titanic_raw, Cur.a) /\ Advance
    /\ UNCHANGED <<extvars, csvvars, age, polution_df, time_improved, df_bikes, gvars, fnvars,
                   printed>>

\* age = df_titanic_raw['Age']  (line 349)
GetColumn ==
    /\ AtStmt("get_column")
    /\ IF ~Defined(df_titanic_raw) THEN UNCHANGED age /\ Raise("NameError")
       ELSE IF ~Has(Cur.a, df_titanic_raw.cols) THEN UNCHANGED age /\ Raise("KeyError")
       ELSE /\ age' = [def |-> TRUE, index |-> df_titanic_raw.index,
                       values |-> Column(df_titanic_raw, Cur.a)]
            /\ Advance
    /\ UNCHANGED <<extvars, csvvars, df_titanic_raw, polution_df, time_improved, df_bikes,
                   gvars, fnvars, printed>>

\* age['Behr, Mr. Karl Howell']  (line 350)
SeriesGet ==
    /\ AtStmt("series_get")
    /\ IF ~age.def THEN Raise("NameError")
       ELSE IF ~Has(StrV(Cur.a), age.index) THEN Raise("KeyError")
       ELSE Advance
    /\ UNCHANGED <<extvars, csvvars, pdvars, gvars, fnvars, printed>>

\* df_titanic_raw[age < 2]  (line 358)
FilterAge ==
    /\ AtStmt("filter_age")
    /\ IF ~Defined(df_titanic_raw) \/ ~age.def THEN Raise("NameError") ELSE Advance
    /\ UNCHANGED <<extvars, csvvars, pdvars, gvars, fnvars, printed>>

\* df_titanic_raw = df_titanic_raw.reset_index()  (line 361)
ResetIndexStmt ==
    /\ AtStmt("reset_index")
    /\ IF ~Defined(df_titanic_raw) THEN UNCHANGED df_titanic_raw /\ Raise("NameError")
       ELSE df_titanic_raw' = ResetIndex(df_titanic_raw) /\ Advance
    /\ UNCHANGED <<extvars, csvvars, age, polution_df, time_improved, df_bikes, gvars, fnvars,
                   printed>>

\* df_titanic_raw.groupby(['Sex']).mean()  (line 399): pandas from 2.0 on
\* raises TypeError on the text columns, older versions drop them
GroupbyMean ==
    /\ AtStmt("groupby_mean")
    /\ IF ~Defined(df_titanic_raw) THEN Raise("NameError")
       ELSE Advance \/ Raise("TypeError")
    /\ UNCHANGED <<extvars, csvvars, pdvars, gvars, fnvars, printed>>

\* pd.read_csv('babies23.data', skiprows=38, sep='\s+')  (line 420): no
\* statement downloads this file
ReadBabies ==
    /\ AtStmt("read_babies")
    /\ IF disk[Cur.a] # 0 THEN Advance ELSE Raise("FileNotFoundError")
    /\ UNCHANGED <<extvars, csvvars, pdvars, gvars, fnvars, printed>>

\* df_titanic_raw.loc[name, column] and df_titanic_raw.loc[name]
\* (lines 456, 461, 466, 472)
LocGetStmt ==
    /\ AtStmt("loc_get")
    /\ IF ~Defined(df_titanic_raw) THEN Raise("NameError")
       ELSE IF ~LocFound(df_titanic_raw, StrV(Cur.a)) THEN Raise("KeyError")
       ELSE Advance
    /\ UNCHANGED <<extvars, csvvars, pdvars, gvars, fnvars, printed>>

\* df_titanic_raw.loc[name, 'Survived'] = n  (lines 467, 478)
LocSetStmt ==
    /\ AtStmt("loc_set")
    /\ IF ~Defined(df_titanic_raw) THEN UNCHANGED df_titanic_raw /\ Raise("NameError")
       ELSE /\ df_titanic_raw' = LocSet(df_titanic_raw, StrV(Cur.a), Cur.b, IntV(Cur.n))
            /\ Advance
    /\ UNCHANGED <<extvars, csvvars, age, polution_df, time_improved, df_bikes, gvars, fnvars,
                   printed>>

\* polution_df = pd.read_csv(..., converters={'heure': str})  (line 526)
ReadPolution ==
    /\ AtStmt("read_polution")
    /\ IF disk[Cur.a] # 0
       THEN \E rows \in PolutionTables :
               /\ csv_polution' = rows
               /\ polution_df' = [def |-> TRUE, cols |-> <<"date", "heure">>,
                                  date |-> [k \in 1..Len(rows) |-> rows[k].date],
                                  heure |-> [k \in 1..Len(rows) |-> HourStr(rows[k].heure)],
                                  DateTime |-> <<>>]
               /\ Advance
       ELSE UNCHANGED <<csv_polution, polution_df>> /\ Raise("FileNotFoundError")
    /\ UNCHANGED <<extvars, csv_titanic, df_titanic_raw, age, time_improved, df_bikes, gvars,
                   fnvars, printed>>

HasHeure == polution_df.def /\ Has("heure", polution_df.cols)
HeureKind(t) == \A k \in 1..Len(polution_df.heure) : polution_df.heure[k].t = t

\* polution_df['heure'] = polution_df['heure'].astype(np.int8)  (line 562)
HourAstypeInt8 ==
    /\ AtStmt("hour_int8")
    /\ IF ~polution_df.def THEN UNCHANGED polution_df /\ Raise("NameError")
       ELSE IF ~HasHeure THEN UNCHANGED polution_df /\ Raise("KeyError")
       ELSE IF \E k \in 1..Len(polution_df.heure) : ~CellParsesInt8(polution_df.heure[k])
       THEN UNCHANGED polution_df /\ Raise("ValueError")
       ELSE /\ polution_df' = [polution_df EXCEPT !.heure =
                                  [k \in 1..Len(@) |-> CellAsInt8(@[k])]]
            /\ Advance
    /\ UNCHANGED <<extvars, csvvars, df_titanic_raw, age, time_improved, df_bikes, gvars, fnvars,
                   printed>>

\* polution_df['heure'] = polution_df['heure'] - 1  (line 567)
HourMinusOne ==
    /\ AtStmt("hour_minus")
    /\ IF ~polution_df.def THEN UNCHANGED polution_df /\ Raise("NameError")
       ELSE IF ~HasHeure THEN UNCHANGED polution_df /\ Raise("KeyError")
       ELSE IF ~HeureKind("int8") THEN UNCHANGED polution_df /\ Raise("TypeError")
       ELSE /\ polution_df' = [polution_df EXCEPT !.heure =
                                  [k \in 1..Len(@) |-> CellMinusOne(@[k])]]
            /\ Advance
    /\ UNCHANGED <<extvars, csvvars, df_titanic_raw, age, time_improved, df_bikes, gvars, fnvars,
                   printed>>

\* polution_df['heure'] = polution_df['heure'].astype('str')  (line 573)
HourAstypeStr ==
    /\ AtStmt("hour_str")
    /\ IF ~polution_df.def THEN UNCHANGED polution_df /\ Raise("NameError")
       ELSE IF ~HasHeure THEN UNCHANGED polution_df /\ Raise("KeyError")
       ELSE /\ polution_df' = [polution_df EXCEPT !.heure =
                                  [k \in 1..Len(@) |-> CellAsStr(@[k])]]
            /\ Advance
    /\ UNCHANGED <<extvars, csvvars, df_titanic_raw, age, time_improved, df_bikes, gvars, fnvars,
                   printed>>

\* time_improved = pd.to_datetime(polution_df['date'] + ' ' +
\*     polution_df['heure'] + ':00', format='%d/%m/%Y %H:%M')  (lines 584-586)
ToDatetimeStmt ==
    /\ AtStmt("to_datetime")
    /\ IF ~polution_df.def THEN UNCHANGED time_improved /\ Raise("NameError")
       ELSE IF ~HasHeure \/ ~Has("date", polution_df.cols)
       THEN UNCHANGED time_improved /\ Raise("KeyError")
       ELSE IF ~HeureKind("str") THEN UNCHANGED time_improved /\ Raise("TypeError")
       ELSE IF \E k \in 1..Len(polution_df.heure) :
                 ~DateTimeParses(StampText(polution_df.date[k], polution_df.heure[k]))
       THEN UNCHANGED time_improved /\ Raise("ValueError")
       ELSE /\ time_improved' =
                 [def |-> TRUE, index |-> RangeIndex(Len(polution_df.heure)),
                  values |-> [k \in 1..Len(polution_df.heure) |->
                     ToDatetime(StampText(polution_df.date[k], polution_df.heure[k]))]]
            /\ Advance
    /\ UNCHANGED <<extvars, csvvars, df_titanic_raw, age, polution_df, df_bikes, gvars,
                   fnvars, printed>>

\* polution_df['DateTime'] = time_improved  (line 600)
AssignDateTime ==
    /\ AtStmt("assign_datetime")
    /\ IF ~polution_df.def \/ ~time_improved.def
       THEN UNCHANGED polution_df /\ Raise("NameError")
       ELSE /\ polution_df' = [polution_df EXCEPT !.cols = Append(@, Cur.a),
                                                  !.DateTime = time_improved.values]
            /\ Advance
    /\ UNCHANGED <<extvars, csvvars, df_titanic_raw, age, time_improved, df_bikes, gvars, fnvars,
                   printed>>

\* del polution_df['heure'], del polution_df['date']  (lines 603, 604)
DelColumn ==
    /\ AtStmt("del_column")
    /\ IF ~polution_df.def THEN UNCHANGED polution_df /\ Raise("NameError")
       ELSE IF ~Has(Cur.a, polution_df.cols) THEN UNCHANGED polution_df /\ Raise("KeyError")
       ELSE /\ polution_df' = [polution_df EXCEPT
                    !.cols = Without(@, IndexOf(Cur.a, @)),
                    !.heure = IF Cur.a = "heure" THEN <<>> ELSE @,
                    !.date = IF Cur.a = "date" THEN <<>> ELSE @]
            /\ Advance
    /\ UNCHANGED <<extvars, csvvars, df_titanic_raw, age, time_improved, df_bikes, gvars, fnvars,
                   printed>>

(***************************************************************************)
(* Pandas.py, the bike accidents (lines 785-995).                          *)
(***************************************************************************)
BikesHas(c) == df_bikes.def /\ Has(c, df_bikes.cols)

\* the positions of the rows whose hour is not missing
KeptRows(hs) == SelectSeq([k \in 1..Len(hs) |-> k], LAMBDA k : hs[k].t # "nan")
Pick(seq, pos) == IF Len(seq) = 0 THEN seq ELSE [j \in 1..Len(pos) |-> seq[pos[j]]]

\* df_bikes['date'] + ' ' + df_bikes['heure'] + ':00' of one row
BikeStampText(date, h) == date \o <<" ">> \o h.c \o <<":", "0", "0">>

\* df_bikes = pd.read_csv("bicycle_db.csv", na_values="",
\*     converters={'data': str, 'heure': str})  (lines 793-794)
ReadBikes ==
    /\ AtStmt("read_bikes")
    /\ IF disk[Cur.a] # 0
       THEN \E rows \in BikesTables :
               /\ df_bikes' = [def |-> TRUE, cols |-> <<"date", "heure">>,
                               idxname |-> "", index |-> RangeIndex(Len(rows)),
                               date |-> [k \in 1..Len(rows) |-> rows[k].date],
                               heure |-> [k \in 1..Len(rows) |-> HourStr(rows[k].heure)],
                               Time |-> <<>>]
               /\ Advance
       ELSE UNCHANGED df_bikes /\ Raise("FileNotFoundError")
    /\ UNCHANGED <<extvars, csvvars, df_titanic_raw, age, polution_df, time_improved,
                   gvars, fnvars, printed>>

\* df_bikes['heure'] = df_bikes['heure'].replace('', np.nan)  (line 839)
ReplaceEmptyHour ==
    /\ AtStmt("replace_empty")
    /\ IF ~df_bikes.def THEN UNCHANGED df_bikes /\ Raise("NameError")
       ELSE IF ~BikesHas(Cur.a) THEN UNCHANGED df_bikes /\ Raise("KeyError")
       ELSE /\ df_bikes' = [df_bikes EXCEPT !.heure = [k \in 1..Len(@) |->
                               IF @[k].t = "str" /\ @[k].c = <<>> THEN NaNCell ELSE @[k]]]
            /\ Advance
    /\ UNCHANGED <<extvars, csvvars, df_titanic_raw, age, polution_df, time_improved,
                   gvars, fnvars, printed>>

\* df_bikes.dropna(subset=['heure'], inplace=True)  (line 845): the rows
\* with a missing hour go, the others keep their labels
DropnaHour ==
    /\ AtStmt("dropna")
    /\ IF ~df_bikes.def THEN UNCHANGED df_bikes /\ Raise("NameError")
       ELSE IF ~BikesHas(Cur.a) THEN UNCHANGED df_bikes /\ Raise("KeyError")
       ELSE /\ LET pos == KeptRows(df_bikes.heure) IN
               df_bikes' = [df_bikes EXCEPT !.index = Pick(@, pos),
                                            !.date = Pick(@, pos),
                                            !.heure = Pick(@, pos),
                                            !.Time = Pick(@, pos)]
            /\ Advance
    /\ UNCHANGED <<extvars, csvvars, df_titanic_raw, age, polution_df, time_improved,
                   gvars, fnvars, printed>>

\* time_improved = pd.to_datetime(df_bikes['date'] + ' ' + df_bikes['heure']
\*     + ':00', format='%Y-%m-%d %H:%M')  (lines 863-865); a missing hour
\* gives a missing text and NaT
BikesToDatetime ==
    /\ AtStmt("bikes_to_datetime")
    /\ IF ~df_bikes.def THEN UNCHANGED time_improved /\ Raise("NameError")
       ELSE IF ~BikesHas(Cur.a) \/ ~BikesHas(Cur.b)
       THEN UNCHANGED time_improved /\ Raise("KeyError")
       ELSE IF \E k \in 1..Len(df_bikes.heure) :
                 /\ df_bikes.heure[k].t = "str"
                 /\ ~DateTimeParsesYmd(BikeStampText(df_bikes.date[k], df_bikes.heure[k]))
       THEN UNCHANGED time_improved /\ Raise("ValueError")
       ELSE /\ time_improved' =
                 [def |-> TRUE, index |-> df_bikes.index,
                  values |-> [k \in 1..Len(df_bikes.heure) |->
                     IF df_bikes.heure[k].t = "str"
                     THEN ToDatetimeYmd(BikeStampText(df_bikes.date[k], df_bikes.heure[k]))
                     ELSE NaT]]
            /\ Advance
    /\ UNCHANGED <<extvars, csvvars, df_titanic_raw, age, polution_df, df_bikes, gvars,
                   fnvars, printed>>

\* df_bikes['Time'] = time_improved  (line 873): the values are matched to
\* the rows by their labels, NaT where time_improved has no such label
BikesAssignTime ==
    /\ AtStmt("bikes_assign_time")
    /\ IF ~df_bikes.def \/ ~time_improved.def
       THEN UNCHANGED df_bikes /\ Raise("NameError")
       ELSE /\ df_bikes' = [df_bikes EXCEPT
                    !.cols = IF Has(Cur.a, @) THEN @ ELSE Append(@, Cur.a),
                    !.Time = [k \in 1..Len(df_bikes.index) |->
                        IF Has(df_bikes.index[k], time_improved.index)
                        THEN time_improved.values[IndexOf(df_bikes.index[k],
                                                          time_improved.index)]
                        ELSE NaT]]
            /\ Advance
    /\ UNCHANGED <<extvars, csvvars, df_titanic_raw, age, polution_df, time_improved,
                   gvars, fnvars, printed>>

\* df_bikes.set_index('Time', inplace=True)  (line 874)
BikesSetIndex ==
    /\ AtStmt("bikes_set_index")
    /\ IF ~df_bikes.def THEN UNCHANGED df_bikes /\ Raise("NameError")
       ELSE IF ~BikesHas(Cur.a) THEN UNCHANGED df_bikes /\ Raise("KeyError")
       ELSE /\ df_bikes' = [df_bikes EXCEPT
                    !.cols = Without(@, IndexOf(Cur.a, @)),
                    !.idxname = Cur.a,
                    !.index = df_bikes.Time,
                    !.Time = <<>>]
            /\ Advance
    /\ UNCHANGED <<extvars, csvvars, df_titanic_raw, age, polution_df, time_improved,
                   gvars, fnvars, printed>>

\* del df_bikes['heure'], del df_bikes['date']  (lines 876, 877)
BikesDelColumn ==
    /\ AtStmt("bikes_del_column")
    /\ IF ~df_bikes.def THEN UNCHANGED df_bikes /\ Raise("NameError")
       ELSE IF ~BikesHas(Cur.a) THEN UNCHANGED df_bikes /\ Raise("KeyError")
       ELSE /\ df_bikes' = [df_bikes EXCEPT
                    !.cols = Without(@, IndexOf(Cur.a, @)),
                    !.heure = IF Cur.a = "heure" THEN <<>> ELSE @,
                    !.date = IF Cur.a = "date" THEN <<>> ELSE @]
            /\ Advance
    /\ UNCHANGED <<extvars, csvvars, df_titanic_raw, age, polution_df, time_improved,
                   gvars, fnvars, printed>>

\* df_bikes['weekday'] = df_bikes.index.weekday, df_bikes['month'] =
\* df_bikes.index.month  (lines 962, 994): only an index of timestamps has
\* these attributes
BikesIndexColumn ==
    /\ AtStmt("bikes_index_column")
    /\ IF ~df_bikes.def THEN UNCHANGED df_bikes /\ Raise("NameError")
       ELSE IF df_bikes.idxname # "Time" THEN UNCHANGED df_bikes /\ Raise("AttributeError")
       ELSE /\ df_bikes' = [df_bikes EXCEPT
                    !.cols = IF Has(Cur.a, @) THEN @ ELSE Append(@, Cur.a)]
            /\ Advance
    /\ UNCHANGED <<extvars, csvvars, df_titanic_raw, age, polution_df, time_improved,
                   gvars, fnvars, printed>>

\* df_bikes['month'] = df_bikes['month'].apply(...)  (line 995): the column
\* stays, with new values
BikesApplyColumn ==
    /\ AtStmt("bikes_apply_column")
    /\ IF ~df_bikes.def THEN Raise("NameError")
       ELSE IF ~BikesHas(Cur.a) THEN Raise("KeyError")
       ELSE Advance
    /\ UNCHANGED <<extvars, csvvars, pdvars, gvars, fnvars, printed>>

(***************************************************************************)
(* networkx graphs: nodes in insertion order, and for every node its       *)
(* neighbours in insertion order with the weight of the edge.              *)
(***************************************************************************)
EmptyGraph == [directed |-> FALSE, nodes |-> <<>>, adj |-> <<>>]
NoMatrix == <<>>

AddNode(g, u) == IF Has(u, g.nodes) THEN g
                 ELSE [g EXCEPT !.nodes = Append(@, u), !.adj = Append(@, <<>>)]

\* the adjacency entry u -> v: set its weight, or append it
SetAdj(g, u, v, w) ==
    LET k == IndexOf(u, g.nodes)
        nb == g.adj[k]
    IN [g EXCEPT !.adj[k] =
          IF \E j \in 1..Len(nb) : nb[j].to = v
          THEN [j \in 1..Len(nb) |-> IF nb[j].to = v THEN [to |-> v, w |-> w] ELSE nb[j]]
          ELSE Append(nb, [to |-> v, w |-> w])]

\* nx.Graph.add_edge(u, v, weight=w)
AddEdge(g, u, v, w) == SetAdj(SetAdj(AddNode(AddNode(g, u), v), u, v, w), v, u, w)

\* G.edges(): node by node; an undirected edge is reported from the
\* endpoint that comes first in G.nodes
RECURSIVE EdgesFrom(_, _)
EdgesFrom(g, k) ==
    IF k > Len(g.nodes) THEN <<>>
    ELSE LET keep == SelectSeq(g.adj[k],
                       LAMBDA e : g.directed \/ ~Has(e.to, SubSeq(g.nodes, 1, k - 1)))
         IN [j \in 1..Len(keep) |-> [u |-> g.nodes[k], v |-> keep[j].to, w |-> keep[j].w]]
            \o EdgesFrom(g, k + 1)
Edges(g) == EdgesFrom(g, 1)

IsEdge(g, u, v) ==
    Has(u, g.nodes) /\ \E j \in 1..Len(g.adj[IndexOf(u, g.nodes)]) :
                          g.adj[IndexOf(u, g.nodes)][j].to = v
Weight(g, u, v) ==
    LET nb == g.adj[IndexOf(u, g.nodes)]
    IN nb[CHOOSE j \in 1..Len(nb) : nb[j].to = v].w

\* nx.adjacency_matrix(G).todense(): weight='weight' is the default, so the
\* entry of an edge is its weight attribute
AdjacencyMatrix(g) ==
    [i \in 1..Len(g.nodes) |-> [j \in 1..Len(g.nodes) |->
        IF IsEdge(g, g.nodes[i], g.nodes[j]) THEN Weight(g, g.nodes[i], g.nodes[j]) ELSE 0]]

\* nx.incidence_matrix(G, oriented=True).T.todense(): one row per edge (u, v)
\* of G.edges(), -1 in the column of u and +1 in the column of v
IncidenceT(g) ==
    LET E == Edges(g) IN
    [e \in 1..Len(E) |-> [j \in 1..Len(g.nodes) |->
        IF E[e].u = E[e].v THEN 0
        ELSE IF g.nodes[j] = E[e].u THEN -1
        ELSE IF g.nodes[j] = E[e].v THEN 1 ELSE 0]]

\* what ox.graph_from_place may return: small directed street networks
OsmGraphs == {
    [directed |-> TRUE, nodes |-> <<"n1", "n2">>,
     adj |-> << <<[to |-> "n2", w |-> 1]>>, <<[to |-> "n1", w |-> 1]>> >>],
    [directed |-> TRUE, nodes |-> <<"n1", "n2", "n3">>,
     adj |-> << <<[to |-> "n2", w |-> 1]>>, <<[to |-> "n3", w |-> 1]>>, <<>> >>] }

(***************************************************************************)
(* TempsMemoire.py, one action per kind of statement.                      *)
(***************************************************************************)
\* G = nx.Graph()  (line 184)
NewGraph ==
    /\ AtStmt("new_graph")
    /\ G' = EmptyGraph
    /\ Advance
    /\ UNCHANGED <<extvars, csvvars, pdvars, A, D, fnvars, printed>>

\* G.add_edge(u, v, weight=w)  (lines 185-189)
AddEdgeStmt ==
    /\ AtStmt("add_edge")
    /\ G' = AddEdge(G, Cur.a, Cur.b, Cur.n)
    /\ Advance
    /\ UNCHANGED <<extvars, csvvars, pdvars, A, D, fnvars, printed>>

\* A = nx.adjacency_matrix(G)  (line 198)
AdjacencyStmt ==
    /\ AtStmt("adjacency")
    /\ A' = AdjacencyMatrix(G)
    /\ Advance
    /\ UNCHANGED <<extvars, csvvars, pdvars, G, D, fnvars, printed>>

\* D = nx.incidence_matrix(G, oriented=True).T  (lines 228, 391)
IncidenceStmt ==
    /\ AtStmt("incidence")
    /\ D' = IncidenceT(G)
    /\ Advance
    /\ UNCHANGED <<extvars, csvvars, pdvars, G, A, fnvars, printed>>

\* with open('force.json') as h: js_graph = json.load(h)  (lines 256-257)
OpenJson ==
    /\ AtStmt("open_json")
    /\ IF disk[Cur.a] # 0 THEN Advance ELSE Raise("FileNotFoundError")
    /\ UNCHANGED <<extvars, csvvars, pdvars, gvars, fnvars, printed>>

\* G = ox.graph_from_place('Montpellier, France', network_type='bike')
\* (line 333): needs the network
GraphFromPlace ==
    /\ AtStmt("graph_from_place")
    /\ \/ \E g \in OsmGraphs : G' = g /\ Advance
       \/ G' = G /\ Raise("ConnectionError")
    /\ UNCHANGED <<extvars, csvvars, pdvars, A, D, fnvars, printed>>

\* illustrate_pdb(12)  (lines 468-474): pdb.set_trace() hands over to the
\* user, who lets the call go on (it returns 42 + 12) or quits the debugger
IllustratePdb ==
    /\ AtStmt("illustrate_pdb")
    /\ Advance \/ Raise("BdbQuit")
    /\ UNCHANGED <<extvars, csvvars, pdvars, gvars, fnvars, printed>>

\* %pdb  (line 481): toggles IPython's automatic post-mortem debugger
PdbMagic ==
    /\ AtStmt("pdb_magic")
    /\ pdb_on' = ~pdb_on
    /\ Advance
    /\ UNCHANGED <<options, disk, csvvars, pdvars, gvars, fnvars, printed>>

(***************************************************************************)
(* blobl_func (lines 486-492).  answer is a float in the code; here it is  *)
(* the exact fraction <<numerator, denominator>> in lowest terms.          *)
(***************************************************************************)
RECURSIVE Gcd(_, _)
Gcd(a, b) == IF b = 0 THEN a ELSE Gcd(b, a % b)
Frac(n, d) == <<n \div Gcd(n, d), d \div Gcd(n, d)>>
\* answer + 1 / i, for i > 0
AddInverse(f, i) == Frac(f[1] * i + f[2], f[2] * i)
NoValue == [def |-> FALSE, v |-> <<0, 1>>]

\* range(x, 0, -1) still has the value i to give
RangeToOneHas(i) == i > 0

\* range(x, -1, -1) still has the value i to give
RangeHas(i) == i > -1

\* blobl_func(4)  (line 497): the call enters the function, answer = 0
CallBlobl ==
    /\ AtStmt("call_blobl")
    /\ frame' = "blobl"
    /\ bx' = Cur.n /\ bi' = Cur.n
    /\ answer' = <<0, 1>>
    /\ UNCHANGED <<ctlvars, extvars, csvvars, pdvars, gvars, ret, printed>>

\* one turn of the for loop (print(i); answer += 1 / i), or return answer
\* once the range is used up
BloblStep ==
    /\ frame = "blobl"
    /\ IF RangeHas(bi)
       THEN /\ printed' = Append(printed, bi)
            /\ IF bi = 0
               THEN /\ frame' = "top"
                    /\ Raise("ZeroDivisionError")
                    /\ UNCHANGED <<bx, bi, answer, ret>>
               ELSE /\ answer' = AddInverse(answer, bi)
                    /\ bi' = bi - 1
                    /\ UNCHANGED <<ctlvars, frame, bx, ret>>
       ELSE /\ ret' = [def |-> TRUE, v |-> answer]
            /\ frame' = "top"
            /\ Advance
            /\ UNCHANGED <<bx, bi, answer, printed>>
    /\ UNCHANGED <<extvars, csvvars, pdvars, gvars>>

(***************************************************************************)
(* The runs.  A notebook starts with an empty namespace, pandas' default   *)
(* display options and some of the data files already on disk (0: absent,  *)
(* 1: there before the run, 2: written by the run).                        *)
(***************************************************************************)
DiskInputs == { [f \in Files |-> 0],
                [f \in Files |-> IF f = BabiesFile THEN 0 ELSE 1],
                [f \in Files |-> 1] }

InitCommon ==
    /\ status = "running" /\ err = ""
    /\ options = [max_rows |-> 60, max_columns |-> 20]
    /\ pdb_on = FALSE
    /\ csv_titanic = NoTable /\ csv_polution = NoTable
    /\ df_titanic_raw = Undef /\ age = UndefSeries
    /\ polution_df = UndefPol /\ time_improved = UndefSeries
    /\ df_bikes = UndefBikes
    /\ G = EmptyGraph /\ A = NoMatrix /\ D = NoMatrix
    /\ ret = NoValue /\ printed = <<>>

Init ==
    /\ script \in {"Pandas", "TempsMemoire"}
    /\ mode \in {"runall", "cells"}
    /\ pc = 1
    /\ disk \in DiskInputs
    /\ frame = "top" /\ bx = 0 /\ bi = 0 /\ answer = <<0, 1>>
    /\ InitCommon

Next ==
    \/ SetOption \/ Download \/ ReadTitanic \/ SetIndexStmt \/ GetColumn
    \/ SeriesGet \/ FilterAge \/ ResetIndexStmt \/ GroupbyMean \/ ReadBabies
    \/ LocGetStmt \/ LocSetStmt \/ ReadPolution \/ HourAstypeInt8
    \/ HourMinusOne \/ HourAstypeStr \/ ToDatetimeStmt \/ AssignDateTime
    \/ DelColumn
    \/ ReadBikes \/ ReplaceEmptyHour \/ DropnaHour \/ BikesToDatetime
    \/ BikesAssignTime \/ BikesSetIndex \/ BikesDelColumn \/ BikesIndexColumn
    \/ BikesApplyColumn
    \/ NewGraph \/ AddEdgeStmt \/ AdjacencyStmt \/ IncidenceStmt \/ OpenJson
    \/ GraphFromPlace \/ IllustratePdb \/ PdbMagic \/ CallBlobl \/ BloblStep

Spec == Init /\ [][Next]_vars

\* blobl_func applied to every x in -MaxX .. MaxX
InitBlobl ==
    /\ script = "TempsMemoire"
    /\ mode = "runall"
    /\ pc = Len(TempsMemoireProg)
    /\ disk = [f \in Files |-> 1]
    /\ frame = "blobl"
    /\ bx \in (-MaxX)..MaxX /\ bi = bx /\ answer = <<0, 1>>
    /\ InitCommon

NextBlobl == BloblStep

SpecBlobl == InitBlobl /\ [][NextBlobl]_vars

(***************************************************************************)
(* Properties.                                                             *)
(***************************************************************************)
InPandas == script = "Pandas"
InTempsMemoire == script = "TempsMemoire"

\* C1: in a run of all the cells in a row, the first statement that raises
\* ends the run: once an exception has been raised nothing changes any more
\* (no handler, no retry, no later statement), and the statement that raises
\* leaves the variables of the script and the state outside it as the
\* statements before it left them.
FirstFailureEndsRun ==
    [][ /\ (mode = "runall" /\ err # "") => UNCHANGED vars
        /\ (err = "" /\ err' # "") => UNCHANGED <<progvars, extvars>> ]_vars

\* a run of Pandas.py stopped at line 420 by the missing babies23.data
FailedAtReadBabies ==
    /\ InPandas /\ mode = "runall" /\ status = "failed"
    /\ Cur.line = 420 /\ err = "FileNotFoundError"
    /\ Defined(df_titanic_raw)

\* C2 as stated: no statement changes anything but the script's variables:
\* the pandas options, the files on disk and the pdb switch never change.
OnlyScriptVariablesChange == [][UNCHANGED extvars]_vars

\* C2, amended: the pandas display options change only at the assignments
\* to pd.options.display.*, a data file changes only at the download of
\* that file, and only when replace=True or the file is absent, and the
\* pdb switch changes only at %pdb; every other statement leaves the three
\* unchanged.
ExternalWritesOnlyWhereStated ==
    [][ /\ options' # options => Cur.op = "set_option"
        /\ pdb_on' # pdb_on => Cur.op = "pdb_magic"
        /\ \A f \in Files : disk'[f] # disk[f] =>
              Cur.op = "download" /\ Cur.a = f /\ (Cur.n = 1 \/ disk[f] = 0) ]_vars

\* the run has set max_columns, has fetched bicycle_db.csv anew
\* (replace=True) and has left the titanic.csv it found in place
OptionSetAndFileFetched ==
    /\ InPandas /\ options.max_columns = 40
    /\ disk[BikesFile] = 2 /\ disk[TitanicFile] = 1

\* C3 as stated: the adjacency matrix A of the example graph holds 1 where
\* (v_i, v_j) is an edge of G and 0 elsewhere.
AdjacencyIsZeroOne ==
    (InTempsMemoire /\ A # NoMatrix /\ ~G.directed) =>
        /\ Len(A) = Len(G.nodes)
        /\ \A i, j \in 1..Len(G.nodes) :
              A[i][j] = IF IsEdge(G, G.nodes[i], G.nodes[j]) THEN 1 ELSE 0

Min(a, b) == IF a <= b THEN a ELSE b
Max(a, b) == IF a <= b THEN b ELSE a

\* C4 as stated: D has one row per edge and one column per vertex, and the
\* row of the edge {i, j} holds +1 in column min(i, j), -1 in column
\* max(i, j) and 0 elsewhere.
IncidenceFollowsDefinition ==
    (InTempsMemoire /\ D # NoMatrix /\ ~G.directed) =>
        /\ Len(D) = Len(Edges(G))
        /\ \A e \in 1..Len(D) :
              LET i == IndexOf(Edges(G)[e].u, G.nodes)
                  j == IndexOf(Edges(G)[e].v, G.nodes)
              IN /\ Len(D[e]) = Len(G.nodes)
                 /\ \A v \in 1..Len(G.nodes) :
                       D[e][v] = IF v = Min(i, j) THEN 1
                                 ELSE IF v = Max(i, j) THEN -1 ELSE 0

\* C5: for every row of the air-quality file whose hour h is in 1..24, the
\* int8 cast holds h (no overflow), the subtraction gives h - 1 in 0..23,
\* the text conversion gives the decimal text of h - 1, and date + ' ' +
\* hour + ':00' parses under '%d/%m/%Y %H:%M' to hour h - 1, minute 0 of the
\* day the row's date names; time_improved holds exactly that timestamp
\* (until line 863 assigns it the timestamps of the bike table).
HourPreprocessing ==
    (InPandas /\ polution_df.def) =>
        \A k \in 1..Len(csv_polution) :
            LET h == NatOfDigits(csv_polution[k].heure)
                day == DayOf(csv_polution[k].date)
                stamp == [Y |-> day.Y, m |-> day.m, d |-> day.d, H |-> h - 1, M |-> 0]
            IN (h >= 1 /\ h <= 24) =>
                /\ pc = Position(567) => polution_df.heure[k] = HourInt8(h)
                /\ pc = Position(573) =>
                      /\ polution_df.heure[k] = HourInt8(h - 1)
                      /\ polution_df.heure[k].i >= 0 /\ polution_df.heure[k].i <= 23
                /\ pc = Position(584) =>
                      /\ polution_df.heure[k] = HourStr(NatToStr(h - 1))
                      /\ DateTimeParses(StampText(polution_df.date[k], polution_df.heure[k]))
                      /\ ToDatetime(StampText(polution_df.date[k], polution_df.heure[k])) = stamp
                /\ (time_improved.def /\ pc <= Position(863)) =>
                      time_improved.values[k] = stamp

\* a file row with hour 24 has become 23:00 of its own day, 29/02/2016
Hour24Became23SameDay ==
    /\ InPandas /\ time_improved.def /\ pc <= Position(863)
    /\ \E k \in 1..Len(csv_polution) :
          /\ csv_polution[k].heure = <<"2", "4">>
          /\ time_improved.values[k] = [Y |-> 2016, m |-> 2, d |-> 29, H |-> 23, M |-> 0]

\* the table holds the rows of the file, in the order of the file, under
\* the index 0..n-1, with the columns of the file and no other
SameAsFile(df, rows) ==
    /\ df.idxname = ""
    /\ df.index = RangeIndex(Len(rows))
    /\ Len(df.data) = Len(rows)
    /\ {df.cols[k] : k \in 1..Len(df.cols)} = {TitanicHeader[k] : k \in 1..Len(TitanicHeader)}
    /\ Len(df.cols) = Len(TitanicHeader)
    /\ \A r \in 1..Len(rows) : \A k \in 1..Len(TitanicHeader) :
          Column(df, TitanicHeader[k])[r] = rows[r][k]

\* C6: after set_index('Name') and reset_index() the index of
\* df_titanic_raw is 0..n-1 again, 'Name' is an ordinary column again, and
\* every row holds in every column the value it held before, in the
\* original order.
SetIndexResetIndexRoundTrip ==
    (InPandas /\ Defined(df_titanic_raw)
        /\ pc > Position(361) /\ pc <= Position(467)) =>
        /\ Has("Name", df_titanic_raw.cols)
        /\ SameAsFile(df_titanic_raw, csv_titanic)

\* right after line 361, on a table of two passengers
AfterResetIndex ==
    /\ InPandas /\ pc = Position(373) /\ Defined(df_titanic_raw)
    /\ Len(df_titanic_raw.data) = 2
    /\ df_titanic_raw.cols = <<"Name", "Survived", "Age", "Fare">>
    /\ csv_titanic[1] # csv_titanic[2]

InFile(name) == \E r \in 1..Len(csv_titanic) : csv_titanic[r][2] = StrV(name)

\* C7 as stated: when a lookup df_titanic_raw.loc[name, ...] is up,
\* df_titanic_raw is indexed by passenger name, and for a name of the data
\* the lookup finds its row.
LookupsFindTheName ==
    (InPandas /\ status = "running" /\ Cur.op = "loc_get"
        /\ Defined(df_titanic_raw) /\ InFile(Cur.a)) =>
        /\ df_titanic_raw.idxname = "Name"
        /\ LocFound(df_titanic_raw, StrV(Cur.a))

\* C8 as stated: once the writes of 0 and 1 to
\* df_titanic_raw.loc[name, 'Survived'] are done, for a passenger recorded
\* with Survived = 1 the table has the rows, the index and the values it
\* had before them: no row was added.
WritesSetBackOriginal ==
    (InPandas /\ Defined(df_titanic_raw) /\ pc > Position(478)
        /\ InFile(Bonnell)
        /\ \A r \in 1..Len(csv_titanic) :
              csv_titanic[r][2] = StrV(Bonnell) => csv_titanic[r][1] = IntV(1)) =>
        SameAsFile(df_titanic_raw, csv_titanic)

\* C9: blobl_func(x) for x >= 0 prints x, x-1, ..., 0 and then fails with
\* ZeroDivisionError without returning; for x < 0 it prints nothing and
\* returns 0.
BloblFuncOutcome ==
    frame = "top" =>
        IF bx >= 0
        THEN /\ err = "ZeroDivisionError"
             /\ ~ret.def
             /\ printed = [k \in 1..(bx + 1) |-> bx + 1 - k]
        ELSE /\ err = ""
             /\ ret = [def |-> TRUE, v |-> <<0, 1>>]
             /\ printed = <<>>

\* blobl_func(4) has printed 4, 3, 2, 1, 0 and failed
BloblFour ==
    /\ frame = "top" /\ bx = 4 /\ err = "ZeroDivisionError"
    /\ printed = <<4, 3, 2, 1, 0>>

====
